---- MODULE Spec2Model ----
(***************************************************************************)
(* uHouse-rs: a fixed-point wireframe renderer for the ATmega328P.         *)
(*                                                                         *)
(* The module models                                                       *)
(*   - the fixed-point vector algebra (src/src/main.rs, 62-139),           *)
(*   - the main loop of main(): state advance and revolution reset, the    *)
(*     vertex transform, clear / rasterize / flush (main.rs, 377-436),     *)
(*   - draw_line, the Bresenham rasterizer (main.rs, 287-326),             *)
(*   - FpsCounter::update and the TIMER1_COMPA interrupt (src/src/fps.rs). *)
(*                                                                         *)
(* Integer arithmetic is 16-bit two's complement (IFixed = i16) with a     *)
(* 32-bit intermediate for products (IFixedMul = i32).  Arithmetic wraps,  *)
(* as in a build without overflow checks; in draw_line, whose inputs the   *)
(* line specification takes from the whole 16-bit range, a build with      *)
(* overflow checks is modelled as well: an overflowing operation may       *)
(* panic, and the panic handler (main.rs, 42-45) never returns.            *)
(*                                                                         *)
(* Specifications:                                                         *)
(*   Spec        main() built without the "fps" feature, all frames        *)
(*   SpecFps     main() built with the "fps" feature, the timer interrupt  *)
(*               interleaved, the first MaxFrames iterations               *)
(*   SpecLine    draw_line step by step on bounded sets of endpoints       *)
(*   SpecRotate  Vec2::rotate on bounded sets of operands                  *)
(***************************************************************************)
EXTENDS Integers, Sequences, FiniteSets, TLC

VARIABLES
  pc,                \* position of main() in its loop
  rotation,          \* main.rs:367
  location,          \* main.rs:370
  rotation_counter,  \* main.rs:372
  location_counter,  \* main.rs:373
  screen_verts,      \* main.rs:364; element i of the array is screen_verts[i + 1]
  edge_i,            \* position of the iterator over MESH_INDICES (main.rs:416)
  looped,            \* history: the loop body has been entered at least once
  iter,              \* history: what the current iteration has done so far
  fps_feature,       \* whether the build has feature "fps"
  count,             \* FpsCounter.count (fps.rs:11)
  FPS_READY,         \* fps.rs:8
  serial,            \* the lines written to FpsCounter.serial, oldest first
  calls,             \* history: update() calls begun since the last report
  raised,            \* history: TIMER1_COMPA ran since the last load of FPS_READY
  line_pc,           \* position of draw_line: "idle", "loop", "done", "panic"
  in0, in1,          \* the endpoints draw_line was called with
  ln,                \* draw_line's locals
  pixels,            \* the put_pixel calls draw_line has made, in order
  rot_pc,            \* position of the rotate harness: "input", "done"
  rot_self, rot_other, rot_out

vars ==
  << pc, rotation, location, rotation_counter, location_counter, screen_verts,
     edge_i, looped, iter, fps_feature, count, FPS_READY, serial, calls,
     raised, line_pc, in0, in1, ln, pixels, rot_pc, rot_self, rot_other,
     rot_out >>

mainVars ==
  << pc, rotation, location, rotation_counter, location_counter, screen_verts,
     edge_i, looped, iter >>

\* main()'s locals
frameVars ==
  << rotation, location, rotation_counter, location_counter, screen_verts,
     edge_i >>

fpsVars == << count, FPS_READY, serial, calls, raised >>

lineVars == << line_pc, in0, in1, ln, pixels >>

rotVars == << rot_pc, rot_self, rot_other, rot_out >>

----------------------------------------------------------------------------
(* Bounds of the model *)

\* SpecFps explores this many main-loop iterations.
MaxFrames == 4

\* SpecLine: endpoints reach this far outside the screen's origin corner ...
Margin == 1

\* ... and this far inside it.
Reach == 3

\* SpecRotate: operand components -RotSpan..RotSpan besides the fixed samples.
RotSpan == 2

----------------------------------------------------------------------------
(* Fixed-point scalars *)

I16_MIN == -(2^15)

I16_MAX == 2^15 - 1

In16(n) == I16_MIN <= n /\ n <= I16_MAX

\* `as IFixed`, and 16-bit wrapping arithmetic
Wrap16(n) == ((n + 32768) % 65536) - 32768

I32_MAX == 2147483647

I32_MIN == (0 - I32_MAX) - 1

\* Wrapping addition of IFixedMul (i32) values, computed without leaving the
\* 32-bit range
Add32(a, b) ==
  IF a > 0 /\ b > 0 /\ a > I32_MAX - b THEN (a + I32_MIN) + (b + I32_MIN)
  ELSE IF a < 0 /\ b < 0 /\ a < I32_MIN - b THEN ((a - I32_MIN) + 1) + ((b - I32_MIN) + I32_MAX)
  ELSE a + b

\* Wrapping subtraction of IFixedMul (i32) values; b # i32::MIN
Sub32(a, b) == Add32(a, 0 - b)

\* `>>` on a signed integer: arithmetic shift, rounds towards minus infinity
Shr(n, k) == n \div (2^k)

\* i16::abs without overflow checks: abs(i16::MIN) = i16::MIN
Abs16(n) == IF n < 0 THEN Wrap16(-n) ELSE n

\* `/` on i16: rounds towards zero; b # 0.  (i16::MIN / -1 panics in every
\* build; the divisors of the loop are positive, see C4.)
TruncDiv(a, b) ==
  LET q == (IF a < 0 THEN -a ELSE a) \div (IF b < 0 THEN -b ELSE b)
  IN  Wrap16(IF (a < 0) = (b < 0) THEN q ELSE -q)

----------------------------------------------------------------------------
(* Vectors *)

Vec2(x, y) == [x |-> x, y |-> y]

Vec3(x, y, z) == [x |-> x, y |-> y, z |-> z]

\* A bug a fixed-point multiplication invites: the products narrowed to 16
\* bits before the rescaling shift.
rotate_Narrow(self, other) ==
  Vec2(Wrap16(Shr(Wrap16(Wrap16(self.x * other.x) - Wrap16(self.y * other.y)), 12)),
       Wrap16(Shr(Wrap16(Wrap16(self.x * other.y) + Wrap16(self.y * other.x)), 12)))

rotate(self, other) ==
  Vec2(Wrap16(Shr(Sub32(self.x * other.x, self.y * other.y), 12)),
       Wrap16(Shr(Add32(self.x * other.y, self.y * other.x), 12)))

swap(self) == Vec2(self.y, self.x)

component_abs(self) == Vec2(Abs16(self.x), Abs16(self.y))

add(self, other) == Vec2(Wrap16(self.x + other.x), Wrap16(self.y + other.y))

sub(self, rhs) == Vec2(Wrap16(self.x - rhs.x), Wrap16(self.y - rhs.y))

----------------------------------------------------------------------------
(* Constants of the program *)

\* 0x1a00 for 0x2a00
MESH_DEPTH_Shallow == 26 * 256

\* 0x2a00
MESH_DEPTH == 10752

NUM_VERTS == 57

NUM_LINES == 68

MESH_VERTS ==
  <<
    Vec3(2048, 2048, 2048), Vec3(-2048, 2048, 2048), Vec3(-2048, -2048, 2048),
    Vec3(2048, -2048, 2048), Vec3(2048, 2048, -2048), Vec3(-2048, 2048, -2048),
    Vec3(-2048, -2048, -2048), Vec3(2048, -2048, -2048), Vec3(0, -5120, 0),
    Vec3(-256, 2048, -2048), Vec3(-1536, 2048, -2048), Vec3(-1536, 512, -2048),
    Vec3(-256, 512, -2048), Vec3(1280, -512, -2048), Vec3(512, -512, -2048),
    Vec3(512, -1280, -2048), Vec3(1280, -1280, -2048), Vec3(-2048, 1280, 512),
    Vec3(-2048, 1280, 1280), Vec3(-2048, 512, 1280), Vec3(-2048, 512, 512),
    Vec3(-2048, 2048, 2816), Vec3(2048, 2048, 2816), Vec3(2048, 1280, 2816),
    Vec3(1024, 1280, 2816), Vec3(512, 512, 2816), Vec3(-1536, 512, 2816),
    Vec3(-2048, 1280, 2816), Vec3(-2048, 2048, 4608), Vec3(2048, 2048, 4608),
    Vec3(2048, 1280, 4608), Vec3(1024, 1280, 4608), Vec3(512, 512, 4608),
    Vec3(-1536, 512, 4608), Vec3(-2048, 1280, 4608), Vec3(4096, 2048, 0),
    Vec3(4096, -5120, 0), Vec3(4096, 512, 0), Vec3(5120, -4096, 0),
    Vec3(3072, -4096, 0), Vec3(4096, -4096, 1024), Vec3(4096, -4096, -1024),
    Vec3(-2048, 2048, 0), Vec3(-5120, 2048, 0), Vec3(-5120, 512, 0),
    Vec3(-4608, 0, 0), Vec3(-4096, 512, 0), Vec3(-3584, 0, 0),
    Vec3(-3072, 512, 0), Vec3(-2560, 0, 0), Vec3(-2048, 512, 0),
    Vec3(-4096, 2048, 0), Vec3(-3072, 2048, 0), Vec3(-256, 2048, -2304),
    Vec3(-1536, 2048, -2304), Vec3(-1536, 2048, -3072), Vec3(-256, 2048, -3072)
  >>

\* Pairs of 0-based indices into MESH_VERTS
MESH_INDICES ==
  <<
    <<0, 1>>, <<1, 2>>, <<2, 3>>, <<3, 0>>, <<4, 5>>, <<5, 6>>,
    <<6, 7>>, <<7, 4>>, <<0, 4>>, <<1, 5>>, <<2, 6>>, <<3, 7>>,
    <<2, 8>>, <<3, 8>>, <<6, 8>>, <<7, 8>>, <<10, 11>>, <<11, 12>>,
    <<12, 9>>, <<13, 14>>, <<14, 15>>, <<15, 16>>, <<16, 13>>, <<17, 18>>,
    <<18, 19>>, <<19, 20>>, <<20, 17>>, <<21, 22>>, <<22, 23>>, <<23, 24>>,
    <<24, 25>>, <<25, 26>>, <<26, 27>>, <<27, 21>>, <<28, 29>>, <<29, 30>>,
    <<30, 31>>, <<31, 32>>, <<32, 33>>, <<33, 34>>, <<34, 28>>, <<21, 28>>,
    <<22, 29>>, <<23, 30>>, <<24, 31>>, <<25, 32>>, <<26, 33>>, <<27, 34>>,
    <<35, 36>>, <<37, 38>>, <<37, 39>>, <<37, 40>>, <<37, 41>>, <<42, 43>>,
    <<43, 44>>, <<44, 45>>, <<45, 46>>, <<46, 47>>, <<47, 48>>, <<48, 49>>,
    <<49, 50>>, <<50, 42>>, <<46, 51>>, <<48, 52>>, <<53, 54>>, <<54, 55>>,
    <<55, 56>>, <<56, 53>>
  >>

\* vec2!(0xffa, 0xd6)
ROT0 == Vec2(4090, 214)

\* vec2!(0xfff, 0x47)
LOC0 == Vec2(4095, 71)

SCREEN_WIDTH == 128

SCREEN_HEIGHT == 64

SCREEN_CENTER == Vec2(64, 32)

\* vec2!(0x1000, 0): the value rotation and location start from and are reset to
Canonical == Vec2(4096, 0)

ROTATION_PERIOD == 120

LOCATION_PERIOD == 360

----------------------------------------------------------------------------
(* Rasterizer: point_accept and draw_line (main.rs, 271-326) *)

point_accept(v) ==
  IF v.x < 0 THEN FALSE
  ELSE IF v.x >= SCREEN_WIDTH THEN FALSE
  ELSE IF v.y < 0 THEN FALSE
  ELSE IF v.y >= SCREEN_HEIGHT THEN FALSE
  ELSE TRUE

\* draw_line's locals when the stepping loop is first reached (lines 288-306)
LineSetup(a, b) ==
  LET d           == component_abs(sub(b, a))
      should_swap == d.y > d.x
      s0          == IF should_swap THEN swap(a) ELSE a
      s1          == IF should_swap THEN swap(b) ELSE b
      v0          == IF s0.x > s1.x THEN s1 ELSE s0
      v1          == IF s0.x > s1.x THEN s0 ELSE s1
      dx          == Wrap16(v1.x - v0.x)
  IN  [ should_swap |-> should_swap,
        v0          |-> v0,
        v1          |-> v1,
        dx          |-> dx,
        dy          |-> Abs16(Wrap16(v1.y - v0.y)),
        y_step      |-> IF v0.y < v1.y THEN 1 ELSE -1,
        half_diff   |-> Wrap16(-Shr(dx, 1)) ]

\* Whether an operation of lines 288-306 overflows 16 bits
LineSetupOverflows(a, b) ==
  LET s == LineSetup(a, b)
  IN  \/ ~In16(b.x - a.x) \/ ~In16(b.y - a.y)
      \/ Wrap16(b.x - a.x) = I16_MIN \/ Wrap16(b.y - a.y) = I16_MIN
      \/ ~In16(s.v1.x - s.v0.x) \/ ~In16(s.v1.y - s.v0.y)
      \/ Wrap16(s.v1.y - s.v0.y) = I16_MIN
      \/ ~In16(-Shr(s.dx, 1))

\* The loop condition with < for <=
LineCond_Exclusive(s) == s.v0.x < s.v1.x

\* The loop condition (line 308)

LineCond(s) == s.v0.x <= s.v1.x

\* A bug in the steep case: the visibility test applied to the swapped-axes
\* point the loop walks, the pixel emitted with the axes swapped back.
LinePixel_TestUnswapped(s) ==
  IF s.should_swap
  THEN IF point_accept(s.v0) THEN << Vec2(s.v0.y, s.v0.x) >> ELSE << >>
  ELSE IF point_accept(s.v0) THEN << Vec2(s.v0.x, s.v0.y) >> ELSE << >>

\* The put_pixel calls of one pass through the loop body (lines 309-317):
\* none or one, as (x, y)
LinePixel(s) ==
  IF s.should_swap
  THEN IF point_accept(swap(s.v0)) THEN << Vec2(s.v0.y, s.v0.x) >> ELSE << >>
  ELSE IF point_accept(s.v0) THEN << Vec2(s.v0.x, s.v0.y) >> ELSE << >>

\* The locals after lines 319-324
LineAdvance(s) ==
  LET h1   == Wrap16(s.half_diff + s.dy)
      step == h1 > 0
  IN  [ s EXCEPT
          !.half_diff = IF step THEN Wrap16(h1 - s.dx) ELSE h1,
          !.v0 = Vec2(Wrap16(s.v0.x + 1),
                      IF step THEN Wrap16(s.v0.y + s.y_step) ELSE s.v0.y) ]

\* Whether an operation of lines 319-324 overflows 16 bits
LineAdvanceOverflows(s) ==
  LET h1 == Wrap16(s.half_diff + s.dy)
  IN  \/ ~In16(s.half_diff + s.dy)
      \/ (h1 > 0 /\ (~In16(h1 - s.dx) \/ ~In16(s.v0.y + s.y_step)))
      \/ ~In16(s.v0.x + 1)

RECURSIVE RunLine(_, _)
RunLine(s, acc) ==
  IF LineCond(s) THEN RunLine(LineAdvance(s), acc \o LinePixel(s)) ELSE acc

\* The put_pixel calls of a whole call of draw_line, in order
draw_line(a, b) == RunLine(LineSetup(a, b), << >>)

----------------------------------------------------------------------------
(* Transform pipeline (main.rs, 397-411) *)

\* moved (line 400)
Moved(v, rot, loc) == add(rotate(Vec2(v.x, v.z), rot), swap(loc))

\* z + MESH_DEPTH before it is fitted to 16 bits (line 407)
DepthSum(v, rot, loc) == Moved(v, rot, loc).y + MESH_DEPTH

\* z_prime (line 407)
ZPrime(v, rot, loc) == Shr(Wrap16(DepthSum(v, rot, loc)), 6)

\* The screen-space point of mesh vertex v (lines 400-410); ZPrime # 0
Project(v, rot, loc) ==
  LET x       == Moved(v, rot, loc).x
      y       == Wrap16(v.y + Shr(loc.x, 2))
      z_prime == ZPrime(v, rot, loc)
  IN  add(Vec2(TruncDiv(x, z_prime), TruncDiv(y, z_prime)), SCREEN_CENTER)

----------------------------------------------------------------------------
(* main(): the loop (main.rs, 377-436) *)

IterStart ==
  [ transform |-> 0, clear |-> 0, edges |-> 0, pixels |-> 0, flush |-> 0,
    update |-> 0 ]

\* A reset that forgets the vector: the counter restarts, the drift stays.
RotationReset_CounterOnly(c, r) ==
  IF c >= ROTATION_PERIOD THEN [counter |-> 0, vec |-> r]
  ELSE [counter |-> c, vec |-> r]

\* Lines 387-390
RotationReset(c, r) ==
  IF c >= ROTATION_PERIOD THEN [counter |-> 0, vec |-> Canonical]
  ELSE [counter |-> c, vec |-> r]

\* Lines 391-394
LocationReset(c, l) ==
  IF c >= LOCATION_PERIOD THEN [counter |-> 0, vec |-> Canonical]
  ELSE [counter |-> c, vec |-> l]

\* Lines 380-394
Advance ==
  /\ pc = "advance"
  /\ LET r == RotationReset((rotation_counter + 1) % 65536, rotate(rotation, ROT0))
         l == LocationReset((location_counter + 1) % 65536, rotate(location, LOC0))
     IN  /\ rotation' = r.vec
         /\ rotation_counter' = r.counter
         /\ location' = l.vec
         /\ location_counter' = l.counter
  /\ pc' = "transform"
  /\ looped' = TRUE
  /\ iter' = IterStart
  /\ UNCHANGED << screen_verts, edge_i, fps_feature >>
  /\ UNCHANGED << fpsVars, lineVars, rotVars >>

\* Lines 397-411, going on at `next`.  A zero divisor panics (line 408).
TransformTo(next) ==
  /\ pc = "transform"
  /\ IF \E i \in 1..Len(MESH_VERTS) : ZPrime(MESH_VERTS[i], rotation, location) = 0
     THEN /\ pc' = "panic"
          /\ UNCHANGED << screen_verts, iter >>
     ELSE /\ screen_verts' =
               [ i \in 1..Len(screen_verts) |->
                   IF i <= Len(MESH_VERTS)
                   THEN Project(MESH_VERTS[i], rotation, location)
                   ELSE screen_verts[i] ]
          /\ iter' = [iter EXCEPT !.transform = @ + 1]
          /\ pc' = next
  /\ UNCHANGED << rotation, location, rotation_counter, location_counter,
                  edge_i, looped, fps_feature >>
  /\ UNCHANGED << fpsVars, lineVars, rotVars >>

\* The loop without line 413
Transform_SkipClear == TransformTo("raster")

Transform == TransformTo("clear")

\* Line 413, and the iterator of line 416 created
Clear ==
  /\ pc = "clear"
  /\ iter' = [iter EXCEPT !.clear = @ + 1]
  /\ edge_i' = 0
  /\ pc' = "raster"
  /\ UNCHANGED << rotation, location, rotation_counter, location_counter,
                  screen_verts, looped, fps_feature >>
  /\ UNCHANGED << fpsVars, lineVars, rotVars >>

\* Indices that count from one
EdgeIndices_OneBased(e) == << MESH_INDICES[e + 1][1] + 1, MESH_INDICES[e + 1][2] + 1 >>

\* pair.0 as usize, pair.1 as usize of the e-th pair, e from 0 (lines 416-421)
EdgeIndices(e) == MESH_INDICES[e + 1]

\* One pass through the loop of lines 416-425: an edge is drawn.  A read of
\* screen_verts out of range is undefined behaviour (get_unchecked).
RasterEdge ==
  /\ pc = "raster"
  /\ edge_i < Len(MESH_INDICES)
  /\ LET pair == EdgeIndices(edge_i)
     IN  IF pair[1] < Len(screen_verts) /\ pair[2] < Len(screen_verts)
         THEN LET px == draw_line(screen_verts[pair[1] + 1], screen_verts[pair[2] + 1])
              IN  /\ iter' = [iter EXCEPT !.edges = @ + 1,
                                          !.pixels = @ + Len(px)]
                  /\ edge_i' = edge_i + 1
                  /\ pc' = IF edge_i + 1 < Len(MESH_INDICES) THEN "raster" ELSE "flush"
         ELSE /\ pc' = "ub"
              /\ UNCHANGED << iter, edge_i >>
  /\ UNCHANGED << rotation, location, rotation_counter, location_counter,
                  screen_verts, looped, fps_feature >>
  /\ UNCHANGED << fpsVars, lineVars, rotVars >>

\* Line 432: the frame is flushed; the frame counter's update follows in a
\* build with feature "fps" (lines 434-435)
Flush ==
  /\ pc = "flush"
  /\ iter' = [iter EXCEPT !.flush = @ + 1]
  /\ pc' = IF fps_feature THEN "fps_inc" ELSE "advance"
  /\ UNCHANGED << frameVars, looped, fps_feature >>
  /\ UNCHANGED << fpsVars, lineVars, rotVars >>

\* Line 432: flush() fails and unwrap() panics
FlushFails ==
  /\ pc = "flush"
  /\ iter' = [iter EXCEPT !.flush = @ + 1]
  /\ pc' = "panic"
  /\ UNCHANGED << frameVars, looped, fps_feature >>
  /\ UNCHANGED << fpsVars, lineVars, rotVars >>

----------------------------------------------------------------------------
(* FpsCounter::update and TIMER1_COMPA (fps.rs, 30-40 and 59-65) *)

\* fps.rs:31
FpsInc ==
  /\ pc = "fps_inc"
  /\ count' = (count + 1) % 65536
  /\ calls' = calls + 1
  /\ iter' = [iter EXCEPT !.update = @ + 1]
  /\ pc' = "fps_load"
  /\ UNCHANGED << FPS_READY, serial, raised >>
  /\ UNCHANGED << frameVars, looped, fps_feature >>
  /\ UNCHANGED << lineVars, rotVars >>

\* fps.rs:35: the load, and the branch on what it read
FpsLoad ==
  /\ pc = "fps_load"
  /\ pc' = IF FPS_READY THEN "fps_report" ELSE "advance"
  /\ raised' = FALSE
  /\ UNCHANGED << count, FPS_READY, serial, calls >>
  /\ UNCHANGED << frameVars, looped, iter, fps_feature >>
  /\ UNCHANGED << lineVars, rotVars >>

\* Lines 36 and 37 of fps.rs in the other order: the count is reset, then
\* written
FpsReport_ResetFirst ==
  /\ pc = "fps_report"
  /\ serial' = Append(serial, 0)
  /\ count' = 0
  /\ calls' = 0
  /\ pc' = "fps_store"
  /\ UNCHANGED << FPS_READY, raised >>
  /\ UNCHANGED << frameVars, looped, iter, fps_feature >>
  /\ UNCHANGED << lineVars, rotVars >>

\* fps.rs:36-37: the count is written to the serial port and reset
FpsReport ==
  /\ pc = "fps_report"
  /\ serial' = Append(serial, count)
  /\ count' = 0
  /\ calls' = 0
  /\ pc' = "fps_store"
  /\ UNCHANGED << FPS_READY, raised >>
  /\ UNCHANGED << frameVars, looped, iter, fps_feature >>
  /\ UNCHANGED << lineVars, rotVars >>

\* fps.rs:38
FpsStore ==
  /\ pc = "fps_store"
  /\ FPS_READY' = FALSE
  /\ pc' = "advance"
  /\ UNCHANGED << count, serial, calls, raised >>
  /\ UNCHANGED << frameVars, looped, iter, fps_feature >>
  /\ UNCHANGED << lineVars, rotVars >>

\* fps.rs:59-65: the interrupt handler; it may run between any two steps of
\* main() once interrupts are enabled (main.rs:342-345)
TIMER1_COMPA ==
  /\ fps_feature
  /\ FPS_READY' = TRUE
  /\ raised' = TRUE
  /\ UNCHANGED << count, serial, calls >>
  /\ UNCHANGED << mainVars, fps_feature, lineVars, rotVars >>

----------------------------------------------------------------------------
(* draw_line, step by step *)

OnScreen(v) == 0 <= v.x /\ v.x < SCREEN_WIDTH /\ 0 <= v.y /\ v.y < SCREEN_HEIGHT

\* Endpoints around the screen's origin corner
NearPoints == { Vec2(x, y) : x \in (0 - Margin)..Reach, y \in (0 - Margin)..Reach }

\* Endpoints further along the axes and the diagonal, and around the far corner
FarPoints ==
  { Vec2(10, 0), Vec2(0, 10), Vec2(10, 10), Vec2(9, 4),
    Vec2(SCREEN_WIDTH - 1, SCREEN_HEIGHT - 1), Vec2(SCREEN_WIDTH, SCREEN_HEIGHT),
    Vec2(SCREEN_WIDTH - 1, 0 - Margin), Vec2(SCREEN_WIDTH + Margin, 31),
    Vec2(40, SCREEN_HEIGHT + Margin) }

\* Pairs of endpoints at the ends of the 16-bit range
ExtremePairs ==
  { << Vec2(32765, 100), Vec2(32767, 100) >>,
    << Vec2(200, 32767), Vec2(200, 32765) >>,
    << Vec2(32760, 5), Vec2(32766, 3) >>,
    << Vec2(-20000, 5), Vec2(20000, 5) >> }

LineInputs ==
  ((NearPoints \cup FarPoints) \X (NearPoints \cup FarPoints)) \cup ExtremePairs

LineIdle == [ should_swap |-> FALSE, v0 |-> Vec2(0, 0), v1 |-> Vec2(0, 0),
              dx |-> 0, dy |-> 0, y_step |-> 1, half_diff |-> 0 ]

\* Lines 288-306
LineEnter ==
  /\ line_pc = "idle"
  /\ \/ /\ ln' = LineSetup(in0, in1)
        /\ line_pc' = "loop"
     \/ /\ LineSetupOverflows(in0, in1)
        /\ line_pc' = "panic"
        /\ UNCHANGED ln
  /\ UNCHANGED << in0, in1, pixels >>
  /\ UNCHANGED << mainVars, fps_feature, fpsVars, rotVars >>

\* One pass through the loop body (lines 308-325)
LineLoop ==
  /\ line_pc = "loop"
  /\ LineCond(ln)
  /\ pixels' = pixels \o LinePixel(ln)
  /\ \/ /\ ln' = LineAdvance(ln)
        /\ UNCHANGED line_pc
     \/ /\ LineAdvanceOverflows(ln)
        /\ line_pc' = "panic"
        /\ UNCHANGED ln
  /\ UNCHANGED << in0, in1 >>
  /\ UNCHANGED << mainVars, fps_feature, fpsVars, rotVars >>

\* The loop condition fails (line 308) and draw_line returns
LineExit ==
  /\ line_pc = "loop"
  /\ ~LineCond(ln)
  /\ line_pc' = "done"
  /\ UNCHANGED << in0, in1, ln, pixels >>
  /\ UNCHANGED << mainVars, fps_feature, fpsVars, rotVars >>

----------------------------------------------------------------------------
(* Vec2::rotate on its own *)

RotSamples ==
  { I16_MIN, I16_MIN + 1, -4097, -4096, -4095, 4095, 4096, 4097, I16_MAX - 1, I16_MAX }
    \cup ((0 - RotSpan)..RotSpan)

RotSelves == { Canonical, ROT0, LOC0 }

RotateCall ==
  /\ rot_pc = "input"
  /\ rot_out' = rotate(rot_self, rot_other)
  /\ rot_pc' = "done"
  /\ UNCHANGED << rot_self, rot_other >>
  /\ UNCHANGED << mainVars, fps_feature, fpsVars, lineVars >>

----------------------------------------------------------------------------
(* Specifications *)

InitMain ==
  /\ pc = "advance"
  /\ rotation = Canonical
  /\ location = Canonical
  /\ rotation_counter = 0
  /\ location_counter = 0
  /\ screen_verts = [ i \in 1..NUM_VERTS |-> Vec2(0, 0) ]
  /\ edge_i = 0
  /\ looped = FALSE
  /\ iter = IterStart

\* main() is not running: draw_line or rotate is exercised on its own
InitMainUnused ==
  /\ pc = "unused"
  /\ rotation = Canonical
  /\ location = Canonical
  /\ rotation_counter = 0
  /\ location_counter = 0
  /\ screen_verts = << >>
  /\ edge_i = 0
  /\ looped = FALSE
  /\ iter = IterStart

InitFpsCounter ==
  /\ count = 0
  /\ FPS_READY = FALSE
  /\ serial = << >>
  /\ calls = 0
  /\ raised = FALSE

InitLineIdle ==
  /\ line_pc = "idle"
  /\ in0 = Vec2(0, 0)
  /\ in1 = Vec2(0, 0)
  /\ ln = LineIdle
  /\ pixels = << >>

InitRotIdle ==
  /\ rot_pc = "done"
  /\ rot_self = Canonical
  /\ rot_other = Canonical
  /\ rot_out = Canonical

Init == InitMain /\ fps_feature = FALSE /\ InitFpsCounter /\ InitLineIdle /\ InitRotIdle

Next == Advance \/ Transform \/ Clear \/ RasterEdge \/ Flush \/ FlushFails

Spec == Init /\ [][Next]_vars

InitFps == InitMain /\ fps_feature = TRUE /\ InitFpsCounter /\ InitLineIdle /\ InitRotIdle

NextFps ==
  \/ (location_counter < MaxFrames /\ Advance)
  \/ Transform \/ Clear \/ RasterEdge \/ Flush \/ FlushFails
  \/ FpsInc \/ FpsLoad \/ FpsReport \/ FpsStore
  \/ TIMER1_COMPA

SpecFps == InitFps /\ [][NextFps]_vars

InitLine ==
  /\ InitMainUnused /\ fps_feature = FALSE /\ InitFpsCounter /\ InitRotIdle
  /\ line_pc = "idle"
  /\ \E pair \in LineInputs : in0 = pair[1] /\ in1 = pair[2]
  /\ ln = LineIdle
  /\ pixels = << >>

NextLine == LineEnter \/ LineLoop \/ LineExit

SpecLine == InitLine /\ [][NextLine]_vars

InitRotate ==
  /\ InitMainUnused /\ fps_feature = FALSE /\ InitFpsCounter /\ InitLineIdle
  /\ rot_pc = "input"
  /\ rot_self \in RotSelves
  /\ rot_other \in { Vec2(x, y) : x \in RotSamples, y \in RotSamples }
  /\ rot_out = Vec2(0, 0)

NextRotate == RotateCall

SpecRotate == InitRotate /\ [][NextRotate]_vars

----------------------------------------------------------------------------
(* Properties *)

Abs(n) == IF n < 0 THEN 0 - n ELSE n

Max(a, b) == IF a >= b THEN a ELSE b

\* The point the loop of draw_line is at, in screen axes
CurrentPoint(s) == IF s.should_swap THEN swap(s.v0) ELSE s.v0

\* v rotated n times by delta (the test of w.x makes TLC compute w before it
\* goes on)
RECURSIVE Turned(_, _, _)
Turned(v, delta, n) ==
  IF n = 0 THEN v
  ELSE LET w == rotate(v, delta)
       IN  IF w.x \in Int THEN Turned(w, delta, n - 1) ELSE w

\* C1: FpsCounter::update adds one to the counter; when it reads the flag
\* raised on the N-th call since the last report it writes N to the serial
\* port and resets the counter to 0, and so again M calls later; when it reads
\* the flag lowered it writes nothing and returns with the counter one larger
\* than at the call.  Nothing else changes the counter or the output.
C1_UpdateContract ==
  [][ /\ (pc = "fps_inc" /\ pc' = "fps_load") =>
            (count' = count + 1 /\ serial' = serial)
      /\ (pc = "fps_load" /\ pc' = "advance") =>
            (~FPS_READY /\ count' = count /\ serial' = serial)
      /\ (pc = "fps_load" /\ pc' = "fps_report") =>
            (FPS_READY /\ count' = count /\ serial' = serial)
      /\ (pc = "fps_report" /\ pc' = "fps_store") =>
            (serial' = Append(serial, calls) /\ calls > 0 /\ count' = 0)
      /\ (pc' = pc \/ pc \notin {"fps_inc", "fps_load", "fps_report"}) =>
            (count' = count /\ serial' = serial)
    ]_vars

\* Two reports: the flag was seen raised on the 3rd call, and again 1 call later.
C1_Witness ==
  pc = "fps_store" /\ serial = << 3, 1 >> /\ count = 0 /\ location_counter = 4

\* C2: whenever TIMER1_COMPA has run since the previous load of FPS_READY, the
\* next load reads the flag raised: no raise is erased unreported.
C2_NoLostRaise == (pc = "fps_load" /\ raised) => FPS_READY

\* C3: every (x, y) draw_line passes to put_pixel has 0 <= x < 128 and
\* 0 <= y < 64, and a pass through the loop at a point off the screen makes no
\* put_pixel call.
C3_PixelsOnScreen ==
  /\ [](\A i \in 1..Len(pixels) :
          /\ 0 <= pixels[i].x /\ pixels[i].x < 128
          /\ 0 <= pixels[i].y /\ pixels[i].y < 64)
  /\ [][ (line_pc = "loop" /\ ~OnScreen(CurrentPoint(ln))) => pixels' = pixels ]_vars

\* A steep line from below the screen to the origin corner, drawn to its end:
\* some of its points were emitted and some were skipped.
C3_Witness ==
  /\ line_pc = "done"
  /\ in0 = Vec2(40, SCREEN_HEIGHT + Margin) /\ in1 = Vec2(0, 0)
  /\ ln.should_swap
  /\ Len(pixels) = SCREEN_HEIGHT

\* C4: whenever the vertices are about to be transformed, z + MESH_DEPTH fits
\* 16 bits and the divisor z_prime is not zero, for every vertex of the mesh.
C4_DepthDivisorNonZero ==
  pc = "transform" =>
    \A i \in 1..Len(MESH_VERTS) :
      /\ In16(DepthSum(MESH_VERTS[i], rotation, location))
      /\ ZPrime(MESH_VERTS[i], rotation, location) # 0

\* The frame in which a vertex comes closest: the divisor is 28 there.
C4_Witness ==
  /\ pc = "transform"
  /\ looped
  /\ \E i \in 1..Len(MESH_VERTS) : ZPrime(MESH_VERTS[i], rotation, location) = 28

\* C5: where the vertices are transformed, rotation_counter is in 0..119 and
\* location_counter in 0..359; a counter of 0 goes with the canonical vector
\* (0x1000, 0); and counters and vectors are those of location_counter steps
\* from the canonical state, the rotation restarting every 120.
C5_RevolutionReset ==
  pc = "transform" =>
    /\ rotation_counter \in 0..119
    /\ location_counter \in 0..359
    /\ rotation_counter = 0 => rotation = Vec2(4096, 0)
    /\ location_counter = 0 => location = Vec2(4096, 0)
    /\ rotation_counter = location_counter % 120
    /\ rotation = Turned(Vec2(4096, 0), ROT0, rotation_counter)
    /\ location = Turned(Vec2(4096, 0), LOC0, location_counter)

\* The 360th iteration: both counters have just been reset.
C5_Witness ==
  pc = "transform" /\ looped /\ rotation_counter = 0 /\ location_counter = 0

\* C6: within an iteration the transform comes first, then one clear, then
\* the 68 edges with all their set_pixel calls, then one flush, then (feature
\* "fps") one update; the next iteration begins only after all of them.
C6_FixedOrder ==
  [][ /\ iter'.transform > iter.transform => iter = IterStart
      /\ iter'.clear > iter.clear =>
            (iter.transform = 1 /\ iter.clear = 0 /\ iter.edges = 0 /\ iter.pixels = 0)
      /\ iter'.edges > iter.edges => (iter.clear = 1 /\ iter.flush = 0)
      /\ iter'.pixels > iter.pixels => (iter.clear = 1 /\ iter.flush = 0)
      /\ iter'.flush > iter.flush =>
            (iter.clear = 1 /\ iter.edges = 68 /\ iter.flush = 0)
      /\ iter'.update > iter.update =>
            (fps_feature /\ iter.flush = 1 /\ iter.update = 0)
      /\ (looped /\ iter' = IterStart /\ iter # IterStart) =>
            /\ iter.transform = 1 /\ iter.clear = 1 /\ iter.edges = 68
            /\ iter.flush = 1
            /\ iter.update = (IF fps_feature THEN 1 ELSE 0)
    ]_vars

\* The end of the second iteration: pixels were set, the frame was flushed and
\* the frame counter updated.
C6_Witness ==
  /\ pc = "advance" /\ looped /\ location_counter = 2
  /\ iter.clear = 1 /\ iter.edges = 68 /\ iter.pixels > 0 /\ iter.flush = 1
  /\ iter.update = 1

\* C7: for two endpoints on the screen draw_line emits max(|dx|, |dy|) + 1
\* pixels, the first and the last being the two endpoints, each next pixel one
\* further along the major axis and at most one off on the minor axis.
C7_ExactPixels ==
  (line_pc = "done" /\ OnScreen(in0) /\ OnScreen(in1)) =>
    LET adx   == Abs(in1.x - in0.x)
        ady   == Abs(in1.y - in0.y)
        n     == Max(adx, ady)
        steep == ady > adx
        major(p) == IF steep THEN p.y ELSE p.x
        minor(p) == IF steep THEN p.x ELSE p.y
    IN  /\ Len(pixels) = n + 1
        /\ { pixels[1], pixels[n + 1] } = { in0, in1 }
        /\ \A i \in 1..n :
             /\ major(pixels[i + 1]) = major(pixels[i]) + 1
             /\ Abs(minor(pixels[i + 1]) - minor(pixels[i])) <= 1

\* The horizontal line from (0,0) to (10,0): exactly (0,0) .. (10,0).
C7_Witness ==
  /\ line_pc = "done"
  /\ in0 = Vec2(0, 0) /\ in1 = Vec2(10, 0)
  /\ pixels = [ i \in 1..11 |-> Vec2(i - 1, 0) ]

\* C8: the mesh has 57 vertices and 68 edges, screen_verts has 57 elements,
\* and every edge the rasterization loop reads has both indices below 57, so
\* no read of screen_verts is out of range.
C8_MeshIndicesInRange ==
  /\ NUM_VERTS = 57 /\ Len(MESH_VERTS) = 57
  /\ NUM_LINES = 68 /\ Len(MESH_INDICES) = 68
  /\ Len(screen_verts) = 57
  /\ pc # "ub"
  /\ pc = "raster" =>
       /\ edge_i \in 0..67
       /\ EdgeIndices(edge_i)[1] \in 0..56
       /\ EdgeIndices(edge_i)[2] \in 0..56
       /\ EdgeIndices(edge_i)[1] < Len(screen_verts)
       /\ EdgeIndices(edge_i)[2] < Len(screen_verts)

\* The last edge, (56, 53), is about to be read: it names the last vertex.
C8_Witness ==
  pc = "raster" /\ edge_i = 67 /\ EdgeIndices(edge_i) = << 56, 53 >> /\ looped

\* C9: rotate with (4096, 0) as the first operand returns the second operand
\* exactly.
C9_RotateUnit ==
  (rot_pc = "done" /\ rot_self = Vec2(4096, 0)) => rot_out = rot_other

\* The operand with the extreme components.
C9_Witness ==
  rot_pc = "done" /\ rot_self = Vec2(4096, 0) /\ rot_other = Vec2(I16_MIN, I16_MAX)

\* C10: the stepping loop of draw_line walks x from the first endpoint's x to
\* the second endpoint's x and stops: while it runs, x is between the first
\* x and one past the second.
C10_WalksOnce ==
  line_pc = "loop" =>
    /\ LineSetup(in0, in1).v0.x <= ln.v0.x
    /\ ln.v0.x <= LineSetup(in0, in1).v1.x + 1

====
